---- MODULE Spec2Model ----
(***************************************************************************)
(* The GLSL sandbox of examples/glsl-sandbox-cube.py: a Canvas that spins  *)
(* a textured cube (timer tick, resize, paint) beside two shader editors   *)
(* and a "Compile!" button.  One action per event handler; the event loop  *)
(* dispatches them one at a time.                                          *)
(*                                                                         *)
(* Angles are kept in tenths (0.5 is 5), so that every value the program   *)
(* computes is an integer.  A 4x4 matrix is kept as the list of transform  *)
(* calls applied to np.eye(4): two matrices with equal lists are equal.    *)
(***************************************************************************)
EXTENDS Integers, Sequences, FiniteSets, TLC

\* ------------------------------------------------------------------ bounds
MaxTicks == 10
MaxDim == 2

\* ------------------------------------------------------- shader source text
\* A source text is the sequence of its lines; the triple-quoted constants
\* start and end with a line break, hence with an empty line.
VERT_MAIN == "gl_Position = u_projection * u_view * u_model * vec4(a_position,1.0);"
VERT_PLAIN == "gl_Position = vec4(a_position,1.0);"
VERT_BROKEN == "gl_Position = ;"
FRAG_MAIN == "gl_FragColor = texture2D(u_texture, vec2(tx, ty));"
FRAG_SOLID == "gl_FragColor = vec4(1.0, 0.0, 0.0, 1.0);"
FRAG_BROKEN == "gl_FragColor = "

VERT_CODE == <<"", VERT_MAIN, "">>
FRAG_CODE == <<"", FRAG_MAIN, "">>

\* What a user may leave in each editor.
VertTexts == {VERT_CODE, <<VERT_PLAIN, "">>, <<"", VERT_BROKEN>>}
FragTexts == {FRAG_CODE, <<FRAG_SOLID, "">>, <<"", FRAG_BROKEN>>}

\* str.strip() of a text: leading and trailing empty lines removed.
RECURSIVE StripHead(_)
StripHead(t) ==
    IF t # <<>> /\ Head(t) = "" THEN StripHead(Tail(t)) ELSE t
RECURSIVE StripTail(_)
StripTail(t) ==
    IF t # <<>> /\ t[Len(t)] = "" THEN StripTail(SubSeq(t, 1, Len(t) - 1)) ELSE t
Strip(t) == StripTail(StripHead(t))

\* The GLSL compiler: blank lines are ignored, every other line must be a
\* statement of the stage's language.
CompilesStage(code, statements) ==
    /\ \E i \in 1..Len(code) : code[i] # ""
    /\ \A i \in 1..Len(code) : code[i] = "" \/ code[i] \in statements
Compiles(pair) ==
    /\ CompilesStage(pair[1], {VERT_MAIN, VERT_PLAIN})
    /\ CompilesStage(pair[2], {FRAG_MAIN, FRAG_SOLID})

\* ------------------------------------------------------------- transforms
Unset == <<>>
eye == << [op |-> "eye", args |-> <<>>] >>
translate(M, x, y, z) == Append(M, [op |-> "translate", args |-> <<x, y, z>>])
rotate(M, angle, x, y, z) == Append(M, [op |-> "rotate", args |-> <<angle, x, y, z>>])

RECURSIVE GCD(_, _)
GCD(a, b) == IF b = 0 THEN a ELSE GCD(b, a % b)
\* width / float(height): the quotient, as a fraction in lowest terms.
Aspect(width, height) ==
    <<width \div GCD(width, height), height \div GCD(width, height)>>
perspective(fovy, aspect, znear, zfar) ==
    << [op |-> "perspective", args |-> <<fovy, aspect[1], aspect[2], znear, zfar>>] >>

FOVY == 450
ZNEAR == 20
ZFAR == 100

\* ------------------------------------------------------------ gloo objects
VertexBuffer(data) == [kind |-> "VertexBuffer", data |-> data]
Texture2D(data) == [kind |-> "Texture2D", data |-> data]
ElementBuffer(data) == [kind |-> "ElementBuffer", data |-> data]
\* ndarray.astype(np.uint16)
astype_uint16(a) == [i \in 1..Len(a) |-> a[i] % 65536]

cube_obj ==
    [positions |-> "cube.obj:v", faces |-> <<0, 1, 2, 0, 2, 3>>,
     normals |-> "cube.obj:vn", texcoords |-> "cube.obj:vt"]
crate == "crate.npz"

NoVars ==
    [a_position |-> Unset, a_texcoord |-> Unset, u_texture |-> Unset,
     u_model |-> Unset, u_view |-> Unset, u_projection |-> Unset]
\* gloo.Program(vert, frag)
Program(vert, frag) ==
    [shaders |-> <<vert, frag>>, active |-> <<vert, frag>>, vars |-> NoVars]
NoProgram == [shaders |-> Unset, active |-> Unset, vars |-> NoVars]
\* program[name] = value
SetVar(prog, name, value) == [prog EXCEPT !.vars[name] = value]
\* program.shaders[i].set_code(code)
set_code(prog, i, code) == [prog EXCEPT !.shaders[i] = code]
\* The program is rebuilt from its two shaders as one unit: on success the
\* new pair becomes active and keeps the bindings, on failure the previous
\* program stays.
compile(prog) ==
    IF Compiles(prog.shaders) THEN [prog EXCEPT !.active = prog.shaders] ELSE prog

VARIABLES
    pc,             \* "main": before MainWindow(); "run": app.run(); "closed"
    mesh,           \* positions, faces, normals, texcoords (module globals)
    faces_buffer,   \* module global
    vertEdit,       \* MainWindow.vertEdit text
    fragEdit,       \* MainWindow.fragEdit text
    program,        \* Canvas.program
    view,           \* Canvas.view
    model,          \* Canvas.model
    projection,     \* Canvas.projection
    theta,          \* Canvas.theta, in tenths
    phi,            \* Canvas.phi, in tenths
    timer,          \* Canvas.timer is running
    gl,             \* GL context state: clear colour, depth test, viewport
    updateRequested,\* Canvas.update() was called and no paint has followed
    drawCall,       \* the draw call issued by the event just handled, if any
    ticks,          \* history: ticks handled
    clicked,        \* history: the editor texts at the last Compile click
    good            \* history: the last clicked pair that compiled

vars ==
    <<pc, mesh, faces_buffer, vertEdit, fragEdit, program, view, model,
      projection, theta, phi, timer, gl, updateRequested, drawCall, ticks,
      clicked, good>>

canvasVars == <<program, view, model, projection, theta, phi, timer>>
history == <<ticks, clicked, good>>

NoGL == [clearColor |-> Unset, depthTest |-> FALSE, viewport |-> Unset]

Init ==
    /\ pc = "main"
    /\ mesh = cube_obj
    /\ faces_buffer = ElementBuffer(astype_uint16(cube_obj.faces))
    /\ vertEdit = Unset
    /\ fragEdit = Unset
    /\ program = NoProgram
    /\ view = Unset
    /\ model = Unset
    /\ projection = Unset
    /\ theta = 0
    /\ phi = 0
    /\ timer = FALSE
    /\ gl = NoGL
    /\ updateRequested = FALSE
    /\ drawCall = <<>>
    /\ ticks = 0
    /\ clicked = <<VERT_CODE, FRAG_CODE>>
    /\ good = <<VERT_CODE, FRAG_CODE>>

\* ---------------------------------------------------------------- Canvas
\* Canvas.init_transforms; prog is self.program as __init__ has built it so far
init_transforms(prog) ==
    /\ view' = translate(eye, 0, 0, -50)
    /\ model' = eye
    /\ projection' = eye
    /\ theta' = 0
    /\ phi' = 0
    /\ program' = SetVar(SetVar(prog, "u_model", model'), "u_view", view')

Canvas_init_timer_not_started ==
    /\ init_transforms(
         SetVar(SetVar(SetVar(Program(VERT_CODE, FRAG_CODE),
                "a_position", VertexBuffer(mesh.positions)),
                "a_texcoord", VertexBuffer(mesh.texcoords)),
                "u_texture", Texture2D(crate)))
    /\ timer' = FALSE

\* Canvas.__init__
Canvas_init ==
    /\ init_transforms(
         SetVar(SetVar(SetVar(Program(VERT_CODE, FRAG_CODE),
                "a_position", VertexBuffer(mesh.positions)),
                "a_texcoord", VertexBuffer(mesh.texcoords)),
                "u_texture", Texture2D(crate)))
    /\ timer' = TRUE

\* MainWindow.__init__ followed by show() and the start of app.run()
MainWindow_init ==
    /\ pc = "main"
    /\ vertEdit' = VERT_CODE
    /\ fragEdit' = FRAG_CODE
    /\ Canvas_init
    /\ pc' = "run"
    /\ drawCall' = <<>>
    /\ UNCHANGED <<mesh, faces_buffer, gl, updateRequested, history>>

\* Canvas.on_initialize
on_initialize ==
    /\ gl' = [gl EXCEPT !.clearColor = <<1, 1, 1, 1>>, !.depthTest = TRUE]
    /\ drawCall' = <<>>
    /\ UNCHANGED <<mesh, faces_buffer, vertEdit, fragEdit, canvasVars, updateRequested>>

on_resize_integer_division(width, height) ==
    /\ gl' = [gl EXCEPT !.viewport = <<0, 0, width, height>>]
    /\ projection' = perspective(FOVY, <<width \div height, 1>>, ZNEAR, ZFAR)
    /\ program' = SetVar(program, "u_projection", projection')
    /\ drawCall' = <<>>
    /\ UNCHANGED <<mesh, faces_buffer, vertEdit, fragEdit, view, model, theta, phi,
                   timer, updateRequested>>

\* Canvas.on_resize, event.size = (width, height)
on_resize(width, height) ==
    /\ gl' = [gl EXCEPT !.viewport = <<0, 0, width, height>>]
    /\ projection' = perspective(FOVY, Aspect(width, height), ZNEAR, ZFAR)
    /\ program' = SetVar(program, "u_projection", projection')
    /\ drawCall' = <<>>
    /\ UNCHANGED <<mesh, faces_buffer, vertEdit, fragEdit, view, model, theta, phi,
                   timer, updateRequested>>

\* Canvas.on_paint: glClear, then program.draw(GL_TRIANGLES, faces_buffer)
on_paint ==
    /\ drawCall' =
         << [cleared |-> {"GL_COLOR_BUFFER_BIT", "GL_DEPTH_BUFFER_BIT"},
             mode |-> "GL_TRIANGLES", indices |-> faces_buffer,
             program |-> program.active, vars |-> program.vars] >>
    /\ updateRequested' = FALSE
    /\ UNCHANGED <<mesh, faces_buffer, vertEdit, fragEdit, canvasVars, gl>>

update_transforms_phi_not_advanced ==
    /\ theta' = theta + 5
    /\ phi' = phi
    /\ model' = rotate(rotate(eye, theta', 0, 0, 1), phi', 0, 1, 0)
    /\ program' = SetVar(program, "u_model", model')
    /\ updateRequested' = TRUE
    /\ drawCall' = <<>>
    /\ UNCHANGED <<mesh, faces_buffer, vertEdit, fragEdit, view, projection, timer, gl>>

update_transforms_moving_view ==
    /\ theta' = theta + 5
    /\ phi' = phi + 5
    /\ model' = rotate(rotate(eye, theta', 0, 0, 1), phi', 0, 1, 0)
    /\ view' = rotate(rotate(view, theta', 0, 0, 1), phi', 0, 1, 0)
    /\ program' = SetVar(SetVar(program, "u_model", model'), "u_view", view')
    /\ updateRequested' = TRUE
    /\ drawCall' = <<>>
    /\ UNCHANGED <<mesh, faces_buffer, vertEdit, fragEdit, projection, timer, gl>>

update_transforms_rotating_positions ==
    /\ theta' = theta + 5
    /\ phi' = phi + 5
    /\ model' = rotate(rotate(eye, theta', 0, 0, 1), phi', 0, 1, 0)
    /\ mesh' = [mesh EXCEPT !.positions = <<"rotated", mesh.positions>>]
    /\ program' = SetVar(program, "u_model", model')
    /\ updateRequested' = TRUE
    /\ drawCall' = <<>>
    /\ UNCHANGED <<faces_buffer, vertEdit, fragEdit, view, projection, timer, gl>>

update_transforms_accumulating ==
    /\ theta' = theta + 5
    /\ phi' = phi + 5
    /\ model' = rotate(rotate(model, theta', 0, 0, 1), phi', 0, 1, 0)
    /\ program' = SetVar(program, "u_model", model')
    /\ updateRequested' = TRUE
    /\ drawCall' = <<>>
    /\ UNCHANGED <<mesh, faces_buffer, vertEdit, fragEdit, view, projection, timer, gl>>

\* Canvas.update_transforms, the timer's callback
update_transforms ==
    /\ theta' = theta + 5
    /\ phi' = phi + 5
    /\ model' = rotate(rotate(eye, theta', 0, 0, 1), phi', 0, 1, 0)
    /\ program' = SetVar(program, "u_model", model')
    /\ updateRequested' = TRUE
    /\ drawCall' = <<>>
    /\ UNCHANGED <<mesh, faces_buffer, vertEdit, fragEdit, view, projection, timer, gl>>

\* ------------------------------------------------------------ MainWindow
\* The user replaces the text of an editor.
edit(vert, frag) ==
    /\ vertEdit' = vert
    /\ fragEdit' = frag
    /\ drawCall' = <<>>
    /\ UNCHANGED <<mesh, faces_buffer, canvasVars, gl, updateRequested>>

on_compile_stage_by_stage ==
    /\ LET vert_code == vertEdit
           frag_code == fragEdit
       IN program' =
            compile(set_code(compile(set_code(program, 1, vert_code)), 2, frag_code))
    /\ drawCall' = <<>>
    /\ UNCHANGED <<mesh, faces_buffer, vertEdit, fragEdit, view, model, projection,
                   theta, phi, timer, gl, updateRequested>>

on_compile_stripped ==
    /\ LET vert_code == Strip(vertEdit)
           frag_code == Strip(fragEdit)
       IN program' = compile(set_code(set_code(program, 1, vert_code), 2, frag_code))
    /\ drawCall' = <<>>
    /\ UNCHANGED <<mesh, faces_buffer, vertEdit, fragEdit, view, model, projection,
                   theta, phi, timer, gl, updateRequested>>

on_compile_new_program ==
    /\ LET vert_code == vertEdit
           frag_code == fragEdit
       IN program' =
            IF Compiles(<<vert_code, frag_code>>)
            THEN Program(vert_code, frag_code)
            ELSE set_code(set_code(program, 1, vert_code), 2, frag_code)
    /\ drawCall' = <<>>
    /\ UNCHANGED <<mesh, faces_buffer, vertEdit, fragEdit, view, model, projection,
                   theta, phi, timer, gl, updateRequested>>

\* MainWindow.on_compile
on_compile ==
    /\ LET vert_code == vertEdit
           frag_code == fragEdit
       IN program' = compile(set_code(set_code(program, 1, vert_code), 2, frag_code))
    /\ drawCall' = <<>>
    /\ UNCHANGED <<mesh, faces_buffer, vertEdit, fragEdit, view, model, projection,
                   theta, phi, timer, gl, updateRequested>>

closeEvent_timer_left_running ==
    /\ timer' = timer
    /\ drawCall' = <<>>
    /\ UNCHANGED <<mesh, faces_buffer, vertEdit, fragEdit, program, view, model,
                   projection, theta, phi, gl, updateRequested>>

\* The window is closed: the timer stops and the loop returns.
closeEvent ==
    /\ timer' = FALSE
    /\ drawCall' = <<>>
    /\ UNCHANGED <<mesh, faces_buffer, vertEdit, fragEdit, program, view, model,
                   projection, theta, phi, gl, updateRequested>>

\* ------------------------------------------------------------ event loop
Sizes == (1..MaxDim) \X (1..MaxDim)
Initialized == gl.clearColor # Unset
Resized == gl.viewport # Unset

Initialize ==
    /\ pc = "run" /\ ~Initialized
    /\ on_initialize
    /\ UNCHANGED <<pc, history>>

Resize ==
    /\ pc = "run" /\ Initialized
    /\ \E size \in Sizes : on_resize(size[1], size[2])
    /\ UNCHANGED <<pc, history>>

Paint ==
    /\ pc = "run" /\ Resized
    /\ on_paint
    /\ UNCHANGED <<pc, history>>

Tick ==
    /\ pc = "run" /\ timer /\ ticks < MaxTicks
    /\ update_transforms
    /\ ticks' = ticks + 1
    /\ UNCHANGED <<pc, clicked, good>>

Edit ==
    /\ pc = "run"
    /\ \E vert \in VertTexts, frag \in FragTexts :
         /\ (vert = vertEdit) # (frag = fragEdit)
         /\ edit(vert, frag)
    /\ UNCHANGED <<pc, history>>

Compile ==
    /\ pc = "run"
    /\ on_compile
    /\ clicked' = <<vertEdit, fragEdit>>
    /\ good' = IF Compiles(<<vertEdit, fragEdit>>) THEN <<vertEdit, fragEdit>> ELSE good
    /\ UNCHANGED <<pc, ticks>>

Close ==
    /\ pc = "run"
    /\ closeEvent
    /\ pc' = "closed"
    /\ UNCHANGED history

Next ==
    \/ MainWindow_init
    \/ Initialize
    \/ Resize
    \/ Paint
    \/ Tick
    \/ Edit
    \/ Compile
    \/ Close

Spec == Init /\ [][Next]_vars

\* ------------------------------------------------------------- properties
DefaultPair == <<VERT_CODE, FRAG_CODE>>
Drawn == drawCall # <<>>
draw == drawCall[1]
Built == pc # "main"

C2_SourceIsLastClick ==
    /\ Built => program.shaders = clicked
    /\ (Drawn /\ Compiles(clicked)) => draw.program = clicked

\* C2 witness: a paint drawing a clicked, non-default pair while both
\* editors already hold other text.
C2_Witness ==
    /\ Drawn
    /\ Compiles(clicked)
    /\ clicked # DefaultPair
    /\ vertEdit # clicked[1]
    /\ fragEdit # clicked[2]

\* C3: theta and phi are 0.5 times the number of ticks handled, in every
\* state (5.0 after 10 ticks); nothing but a tick moves them and they are
\* never reset or wrapped.  (Angles in tenths.)
C3_AnglesCountTicks ==
    /\ theta = 5 * ticks
    /\ phi = 5 * ticks
    /\ ticks = 10 => (theta = 50 /\ phi = 50)

\* C3 witness: ten ticks, with a resize, a compile and a paint among them.
C3_Witness ==
    /\ ticks = 10
    /\ theta = 50
    /\ Resized
    /\ clicked # DefaultPair
    /\ Drawn

\* C4: after a resize to (W, H) the canvas projection, and the program's
\* u_projection, is perspective(45.0, W/H, 2.0, 10.0): a function of the
\* ratio of the last size alone, whatever happened before or since.
C4_ProjectionFromAspect ==
    Resized =>
        /\ projection =
             perspective(FOVY, Aspect(gl.viewport[3], gl.viewport[4]), ZNEAR, ZFAR)
        /\ program.vars.u_projection = projection

\* C4 witness: the canvas is 1 x 2 after ticks and a recompile have happened.
C4_Witness ==
    /\ Resized
    /\ gl.viewport = <<0, 0, 1, 2>>
    /\ projection = perspective(FOVY, <<1, 2>>, ZNEAR, ZFAR)
    /\ ticks > 0
    /\ program.active # DefaultPair

\* C5: once the canvas is built, no event changes view or u_view, and only
\* a resize changes projection or u_projection.
C5_ViewAndProjectionFrame ==
    [][Built =>
         /\ view' = view
         /\ program'.vars.u_view = program.vars.u_view
         /\ (projection' # projection
               \/ program'.vars.u_projection # program.vars.u_projection) => Resize
      ]_vars

\* C5 witness: ticks, a resize, a recompile and a paint have happened and the
\* view is still the one init_transforms made.
C5_Witness ==
    /\ ticks > 1
    /\ Resized
    /\ program.active # DefaultPair
    /\ Drawn
    /\ view = translate(eye, 0, 0, -50)
    /\ program.vars.u_view = view

\* C6, as stated: the timer runs only once the surface is initialised, and
\* no tick is handled before on_initialize.
C6_TimerStartsAfterInitialize ==
    /\ timer => Initialized
    /\ ticks > 0 => Initialized

\* C6, amended: the timer is started by Canvas.__init__, while the surface
\* is still uninitialised; from then until the window closes it runs whether
\* or not on_initialize has run.  on_initialize only sets the clear colour
\* and enables the depth test.  Before the canvas is built the timer does
\* not run, no tick has been handled and both angles are 0.
C6_TimerStartsInConstructor ==
    /\ pc = "run" => timer
    /\ pc = "main" => (~timer /\ ticks = 0 /\ theta = 0 /\ phi = 0)
    /\ Initialized => (gl.clearColor = <<1, 1, 1, 1>> /\ gl.depthTest)
    /\ ~Initialized => (gl.clearColor = Unset /\ ~gl.depthTest)

\* C6 witness: the canvas is built, its timer runs and on_initialize has not
\* run yet.
C6_Witness ==
    /\ pc = "run"
    /\ timer
    /\ ~Initialized

\* C7: closing the window stops the timer; once closed no tick is handled:
\* theta, phi and the model matrix do not change and no repaint is requested.
C7_NoTickAfterClose ==
    /\ [](pc = "closed" => ~timer)
    /\ [][pc = "closed" =>
            UNCHANGED <<theta, phi, model, program, updateRequested, ticks>>]_vars

\* C7 witness: the window was closed after some ticks and before the last one.
C7_Witness ==
    /\ pc = "closed"
    /\ ticks > 0
    /\ ticks < MaxTicks
    /\ ~timer

C9_MeshAndTextureFixed ==
    /\ mesh = cube_obj
    /\ faces_buffer = ElementBuffer(astype_uint16(cube_obj.faces))
    /\ Built => program.vars.u_texture = Texture2D(crate)
    /\ Drawn => draw.indices = ElementBuffer(astype_uint16(cube_obj.faces))

\* C9 witness: ticks, a resize, a recompile and a paint have happened.
C9_Witness ==
    /\ ticks > 1
    /\ Resized
    /\ program.active # DefaultPair
    /\ Drawn
    /\ mesh = cube_obj

\* C10: the model matrix is the identity before the first tick and afterwards
\* the rotation about Z by theta, then about Y by phi, of a fresh identity;
\* the program's u_model equals the canvas's model between events and in
\* every paint.
C10_ModelFromAngles ==
    Built =>
        /\ model = IF ticks = 0 THEN eye
                   ELSE rotate(rotate(eye, theta, 0, 0, 1), phi, 0, 1, 0)
        /\ program.vars.u_model = model
        /\ Drawn => draw.vars.u_model = model

\* C10 witness: a paint after the third tick.
C10_Witness ==
    /\ Drawn
    /\ ticks = 3
    /\ model = rotate(rotate(eye, 15, 0, 0, 1), 15, 0, 1, 0)
====
